---- MODULE Spec2Model ----
(***************************************************************************)
(* Model of the stocktrading decision-and-lifecycle engine:                *)
(*   modules/portfolio_manager.py  PortfolioManager (the capital ledger)   *)
(*   modules/trading_strategy.py   TradingStrategy (trade factory, monitor)*)
(*   modules/paper_trading.py      PaperTrading (the UI session's trades)  *)
(*   modules/utils.py              the position store (paper_trades.json)  *)
(*                                                                         *)
(* Conventions of the translation.                                         *)
(*  - Python's None and a missing dict key are None == <<>>; a present     *)
(*    value v is Some(v) == <<v>>.                                          *)
(*  - Money is an integer.  Values the code obtains by multiplying with a  *)
(*    decimal factor (0.02, 0.95, 1.15, 1.5, 0.8 ...) are kept times 100   *)
(*    ("hundredths"): stop_loss, take_profit and max_position_size.  Every *)
(*    comparison is cross-multiplied accordingly, so it is exact.          *)
(*  - Market data (price, ATR, option quotes, the gate conditions computed *)
(*    from the indicators) is the environment: each fetch draws a value    *)
(*    from a small set, independently of earlier fetches.                  *)
(*  - trading_strategy.py names stop_loss/take_profit at lines 263-264     *)
(*    where lines 237-242 computed stop_loss_price/take_profit_price, and  *)
(*    line 343 is indented one column short of line 361's elif: both are   *)
(*    read as the evident intent (the computed bands; the if/elif nested   *)
(*    in the status == 'open' block of line 340).                          *)
(*  - One call of load_trades ... save_trades inside a handler is a single *)
(*    step; check_signals is split where it calls into the strategy, so    *)
(*    that other sessions interleave between its check and its reserve.    *)
(***************************************************************************)
EXTENDS Integers, Sequences, FiniteSets, TLC

\* ------------------------------------------------------------------ bounds

\* Total number of positions ever created in one run of the model.
MaxTrades == 2

\* Number of trading cycles of the auto-trader's loop that are followed.
MaxCycles == 2

\* --------------------------------------------------------------- constants

\* PortfolioManager.__init__(initial_capital=100000)
InitialCapital == 100000

\* TradingStrategy.max_loss_pct = 0.20, used as max_loss_pct * 100
MaxLossPct == 20

\* run_automated_trading: max_retries = 3
MaxRetries == 3

\* The instruments of trading_strategies, in dict (insertion) order.
SymbolOrder == <<"A", "B">>

Symbols == {SymbolOrder[i] : i \in 1..Len(SymbolOrder)}

\* The two PortfolioManager instances of a deployment: the Streamlit
\* session's (main.py) and the auto-trader's (auto_trade.py).
PMs == {"ui", "auto"}

\* Closing prices the data provider may report.
Prices == {20, 50}

\* ATR values the data provider may report (0: not available).
ATRs == {0, 16}

\* (max_loss, max_profit) of the structures select_best_strategy may build.
Plans == {<<250, 150>>, <<99900, 100>>}

\* ----------------------------------------------------------------- helpers

None == <<>>

Some(v) == <<v>>

RECURSIVE SumSeq(_)
SumSeq(s) == IF s = <<>> THEN 0 ELSE Head(s) + SumSeq(Tail(s))

\* What one fetch of market data for one record yields: the closing price
\* and the valuation of an options structure under the live chain (None:
\* no quote).  A record's evaluation reads one of the two, by its type, so
\* the pairs need only cover each component's values.
Markets ==
  {[price |-> 20, pnl |-> None], [price |-> 50, pnl |-> Some(-300)],
   [price |-> 20, pnl |-> Some(0)], [price |-> 50, pnl |-> Some(100)]}

\* ------------------------------------------------- TradingStrategy: create

\* TradingStrategy.current_capital is the initial_capital the portfolio
\* manager passes, its max_position_size at construction (initial * 0.02);
\* risk_amount = current_capital * 0.02; quantity = int(risk_amount / price).
\* Kept exact: floor((InitialCapital * 4) / (10000 * price)).
EquityQuantity(price) == (InitialCapital * 4) \div (10000 * price)

\* The ATR bands when ATR is available and > 0, else the fixed 5%/15% bands
\* (hundredths of the price unit).
StopLossPrice(price, atr) ==
  IF atr > 0 THEN 100 * price - 150 * atr ELSE 95 * price

TakeProfitPrice(price, atr) ==
  IF atr > 0 THEN 100 * price + 300 * atr ELSE 115 * price

\* The equity record of execute_trade.
EquityTrade(id, symbol, price, atr) ==
  [id |-> id, symbol |-> symbol, type |-> "equity", status |-> "open",
   quantity |-> Some(EquityQuantity(price)), entry_price |-> Some(price),
   stop_loss |-> StopLossPrice(price, atr),
   take_profit |-> TakeProfitPrice(price, atr),
   max_loss |-> None, max_profit |-> None,
   exit_date |-> None, exit_price |-> None, profit |-> None]

\* OptionsStrategy.execute_strategy builds the record (type
\* 'options_strategy', no quantity, entry_price or exit keys); execute_trade
\* then sets the bands, the last assignment (lines 317-318) being
\* stop_loss = max_loss * 0.8 and take_profit = max_profit * 0.5.
OptionsTrade(id, symbol, plan) ==
  [id |-> id, symbol |-> symbol, type |-> "options_strategy",
   status |-> "open",
   quantity |-> None, entry_price |-> None,
   stop_loss |-> 80 * plan[1], take_profit |-> 50 * plan[2],
   max_loss |-> Some(plan[1]), max_profit |-> Some(plan[2]),
   exit_date |-> None, exit_price |-> None, profit |-> None]

\* TradingStrategy.execute_trade: None (no trade, nothing persisted) or
\* Some(trade), which the caller finds already appended to the store.
\* fetch is the price of get_technical_signals at this call (None: the
\* fallback snapshot, on which line 235 raises); plan is the result of
\* select_best_strategy (None: no structure).
execute_trade(trade_type, id, symbol, fetch, atr, plan) ==
  IF fetch = None THEN None
  ELSE IF trade_type = "equity"
       THEN IF EquityQuantity(fetch[1]) < 1 THEN None
            ELSE Some(EquityTrade(id, symbol, fetch[1], atr))
  ELSE IF trade_type = "options"
       THEN IF plan = None THEN None
            ELSE Some(OptionsTrade(id, symbol, plan[1]))
  ELSE None

\* C18 mutant: the options gate tested before the equity gate.
should_enter_trade_OptionsFirst(price_valid, ml, prob, equity_conditions, options_conditions) ==
  IF ~price_valid THEN "none"
  ELSE IF ~ml THEN "none"
  ELSE IF prob < 50 THEN "none"
  ELSE IF options_conditions THEN "options"
  ELSE IF equity_conditions THEN "equity"
  ELSE "none"

\* TradingStrategy.should_enter_trade: "equity", "options" or "none".
\* ml: a scoring model is attached; prob: its predicted probability in
\* percent.  Line 181 reads self.ml_model.predict_proba outside the
\* `if ... self.ml_model:` block, so without a model it raises and the
\* handler at line 223 returns None.
should_enter_trade(price_valid, ml, prob, equity_conditions, options_conditions) ==
  IF ~price_valid THEN "none"
  ELSE IF ~ml THEN "none"
  ELSE IF prob < 50 THEN "none"
  ELSE IF equity_conditions THEN "equity"
  ELSE IF options_conditions THEN "options"
  ELSE "none"

\* ------------------------------------------------ TradingStrategy: monitor

\* C7 mutant: the equity exit without exit_date.
MonitorEquity_NoExitDate(t, price) ==
  LET entry == t.entry_price[1]
      ratchet == (price - entry) * 100 > 10 * entry
      stop == IF ratchet /\ 95 * price > t.stop_loss
              THEN 95 * price ELSE t.stop_loss
      exit == \/ 100 * price <= stop
              \/ 100 * price >= t.take_profit
              \/ (price - entry) * 100 <= -(MaxLossPct * entry)
  IN IF exit
     THEN [t EXCEPT !.stop_loss = stop, !.status = "closed",
                    !.exit_price = Some(price),
                    !.profit = Some((price - entry) * t.quantity[1])]
     ELSE [t EXCEPT !.stop_loss = stop]

\* C11 mutant: the trailing stop without the comparison of line 351.
MonitorEquity_NoCompare(t, price) ==
  LET entry == t.entry_price[1]
      ratchet == (price - entry) * 100 > 10 * entry
      stop == IF ratchet THEN 95 * price ELSE t.stop_loss
      exit == \/ 100 * price <= stop
              \/ 100 * price >= t.take_profit
              \/ (price - entry) * 100 <= -(MaxLossPct * entry)
  IN IF exit
     THEN [t EXCEPT !.stop_loss = stop, !.status = "closed",
                    !.exit_date = Some("now"), !.exit_price = Some(price),
                    !.profit = Some((price - entry) * t.quantity[1])]
     ELSE [t EXCEPT !.stop_loss = stop]

\* C12 mutant: the exit test without the maximum-loss threshold.
MonitorEquity_NoMaxLoss(t, price) ==
  LET entry == t.entry_price[1]
      ratchet == (price - entry) * 100 > 10 * entry
      stop == IF ratchet /\ 95 * price > t.stop_loss
              THEN 95 * price ELSE t.stop_loss
      exit == \/ 100 * price <= stop
              \/ 100 * price >= t.take_profit
  IN IF exit
     THEN [t EXCEPT !.stop_loss = stop, !.status = "closed",
                    !.exit_date = Some("now"), !.exit_price = Some(price),
                    !.profit = Some((price - entry) * t.quantity[1])]
     ELSE [t EXCEPT !.stop_loss = stop]

\* monitor_positions lines 343-359, one open equity position at price.
MonitorEquity(t, price) ==
  LET entry == t.entry_price[1]
      ratchet == (price - entry) * 100 > 10 * entry
      stop == IF ratchet /\ 95 * price > t.stop_loss
              THEN 95 * price ELSE t.stop_loss
      exit == \/ 100 * price <= stop
              \/ 100 * price >= t.take_profit
              \/ (price - entry) * 100 <= -(MaxLossPct * entry)
  IN IF exit
     THEN [t EXCEPT !.stop_loss = stop, !.status = "closed",
                    !.exit_date = Some("now"), !.exit_price = Some(price),
                    !.profit = Some((price - entry) * t.quantity[1])]
     ELSE [t EXCEPT !.stop_loss = stop]

\* monitor_positions lines 361-397, one position of type 'options' whose
\* structure has unrealized P&L pnl under the live chain (None: the chain
\* is empty).  exit_price is not assigned.
MonitorOptions(t, pnl) ==
  IF pnl = None THEN t
  ELSE IF 100 * pnl[1] <= -t.stop_loss \/ 100 * pnl[1] >= t.take_profit
       THEN [t EXCEPT !.status = "closed", !.exit_date = Some("now"),
                      !.profit = Some(pnl[1])]
       ELSE t

\* C8 mutant: the loop body without the test of line 340 on the status.
MonitorTrade_AnyStatus(t, price, pnl) ==
  IF t.type = "equity" THEN MonitorEquity(t, price)
  ELSE IF t.type = "options" THEN MonitorOptions(t, pnl)
  ELSE t

\* The body of monitor_positions' loop (lines 339-399) for one record.
MonitorTrade(t, price, pnl) ==
  IF t.status = "open"
  THEN IF t.type = "equity" THEN MonitorEquity(t, price)
       ELSE IF t.type = "options" THEN MonitorOptions(t, pnl)
       ELSE t
  ELSE t

\* TradingStrategy.monitor_position(trade), which monitor_portfolio calls:
\* not defined in trading_strategy.py.  After the position lifecycle of the
\* specification: an equity position follows the equity rule; an options
\* position closes when unrealized_pnl <= -stop_loss or >= take_profit with
\* profit = unrealized_pnl, all exit fields populated; an unavailable
\* valuation leaves it open.
monitor_position(t, price, pnl) ==
  IF t.type = "equity" THEN MonitorEquity(t, price)
  ELSE IF pnl = None THEN t
  ELSE IF 100 * pnl[1] <= -t.stop_loss \/ 100 * pnl[1] >= t.take_profit
       THEN [t EXCEPT !.status = "closed", !.exit_date = Some("now"),
                      !.exit_price = Some(pnl[1]), !.profit = Some(pnl[1])]
       ELSE t

\* ------------------------------------------------------------------- state

VARIABLES
  trades,             \* data/paper_trades.json: the ordered position store
  ml_model,           \* models/trade_model.pkl could be loaded
  available_capital,  \* PortfolioManager.available_capital, per instance
  max_position_size,  \* PortfolioManager.max_position_size, in hundredths
  pc,                 \* where each instance's check_signals stands
  idx,                \* check_signals: position of its loop in SymbolOrder
  held,               \* check_signals: symbols open in its `trades` of line 57
  pending,            \* check_signals: the trade execute_trade returned
  next_id,            \* history: number of positions created so far, plus 1
  reserved,           \* history: per instance, ids whose cost it deducted
  released,           \* history: per id, how many times capital was released
  eval                \* the inputs and the result of the last evaluation
                      \* of the function-level specifications (None elsewhere)

vars == <<trades, ml_model, available_capital, max_position_size, pc, idx,
          held, pending, next_id, reserved, released, eval>>

Ids == 1..MaxTrades

Indices == 1..Len(trades)

IsOpen(t) == t.status = "open"

\* `any(t for t in trades if t['symbol'] == symbol and t['status'] == 'open')`
OpenSymbols(ts) == {ts[i].symbol : i \in {j \in 1..Len(ts) : IsOpen(ts[j])}}

\* ------------------------------------------------------- PortfolioManager

\* C10 mutant: the cost of an equity without its quantity.
Cost_PriceOnly(t) ==
  IF t.type = "equity" THEN t.entry_price[1]
  ELSE t.max_loss[1]

\* check_signals line 76: the capital a new trade uses.
Cost(t) ==
  IF t.type = "equity" THEN t.entry_price[1] * t.quantity[1]
  ELSE t.max_loss[1]

\* monitor_portfolio lines 107-111: the capital a closed trade returns.
Release(t) ==
  IF t.type = "equity" THEN t.exit_price[1] * t.quantity[1]
  ELSE t.profit[1]

\* get_portfolio_stats: the unrealized P&L of one record, 0 unless it is open
\* and its symbol has a strategy.  calculate_options_pnl, which line 155
\* calls, is not defined in trading_strategy.py: it is the mark-to-market of
\* the structure, the value pnl the chain gives.
UnrealizedPnl(t, m) ==
  IF IsOpen(t) /\ t.symbol \in Symbols
  THEN IF t.type = "equity"
       THEN (m.price - t.entry_price[1]) * t.quantity[1]
       ELSE IF m.pnl = None THEN 0 ELSE m.pnl[1]
  ELSE 0

RealizedProfit(t) ==
  IF ~IsOpen(t) /\ t.profit # None THEN t.profit[1] ELSE 0

\* get_portfolio_stats()['current_capital'] over the store ts, with the
\* market data obs[i] fetched for record i.
CurrentCapital(ts, obs) ==
  IF ts = <<>> THEN InitialCapital
  ELSE InitialCapital
       + SumSeq([i \in 1..Len(ts) |-> RealizedProfit(ts[i])])
       + SumSeq([i \in 1..Len(ts) |-> UnrealizedPnl(ts[i], obs[i])])

Init ==
  /\ trades = <<>>
  /\ ml_model \in BOOLEAN
  /\ available_capital = [p \in PMs |-> InitialCapital]
  /\ max_position_size = [p \in PMs |-> 2 * InitialCapital]
  /\ pc = [p \in PMs |-> "idle"]
  /\ idx = [p \in PMs |-> 0]
  /\ held = [p \in PMs |-> {}]
  /\ pending = [p \in PMs |-> None]
  /\ next_id = 1
  /\ reserved = [p \in PMs |-> {}]
  /\ released = [i \in Ids |-> 0]
  /\ eval = None

\* check_signals lines 50-57: recompute max_position_size as 2% of the
\* current capital and load the store.
CheckSignalsStart(p) ==
  /\ pc[p] = "idle"
  /\ \E c \in {CurrentCapital(trades, obs) : obs \in [Indices -> Markets]} :
       max_position_size' = [max_position_size EXCEPT ![p] = 2 * c]
  /\ held' = [held EXCEPT ![p] = OpenSymbols(trades)]
  /\ idx' = [idx EXCEPT ![p] = 1]
  /\ pc' = [pc EXCEPT ![p] = "loop"]
  /\ UNCHANGED eval
  /\ UNCHANGED <<trades, ml_model, available_capital, pending, next_id,
                 reserved, released>>

\* The loop moves to the next instrument, or check_signals returns.
NextPc(p) == IF idx[p] < Len(SymbolOrder) THEN "loop" ELSE "idle"

NextIdx(p) == IF idx[p] < Len(SymbolOrder) THEN idx[p] + 1 ELSE 0

\* The loaded store is a local of check_signals: gone when it returns.
NextHeld(p) == IF idx[p] < Len(SymbolOrder) THEN held[p] ELSE {}

\* Lines 60-63: the instrument already has an open position in the loaded
\* store: continue.
CheckSymbolSkip(p) ==
  /\ pc[p] = "loop"
  /\ SymbolOrder[idx[p]] \in held[p]
  /\ idx' = [idx EXCEPT ![p] = NextIdx(p)]
  /\ held' = [held EXCEPT ![p] = NextHeld(p)]
  /\ pc' = [pc EXCEPT ![p] = NextPc(p)]
  /\ UNCHANGED eval
  /\ UNCHANGED <<trades, ml_model, available_capital, max_position_size,
                 pending, next_id, reserved, released>>

\* Line 66: available_capital < max_position_size.
InsufficientCapital(p) == 100 * available_capital[p] < max_position_size[p]

\* Lines 65-68: not enough capital: break, check_signals returns.
CheckSymbolBreak(p) ==
  /\ pc[p] = "loop"
  /\ SymbolOrder[idx[p]] \notin held[p]
  /\ InsufficientCapital(p)
  /\ pc' = [pc EXCEPT ![p] = "idle"]
  /\ idx' = [idx EXCEPT ![p] = 0]
  /\ held' = [held EXCEPT ![p] = {}]
  /\ UNCHANGED eval
  /\ UNCHANGED <<trades, ml_model, available_capital, max_position_size,
                 pending, next_id, reserved, released>>

\* What lines 71-73 yield for one instrument: the result of execute_trade
\* when should_enter_trade gives a trade type, None otherwise (also when
\* either raises: line 80 catches and continues).
Evaluate(symbol, id, valid, prob, eq, opt, fetch, atr, plan) ==
  LET trade_type == should_enter_trade(valid, ml_model, prob, eq, opt)
  IN IF trade_type = "none" THEN None
     ELSE execute_trade(trade_type, id, symbol, fetch, atr, plan)

\* The market data one evaluation of an instrument may see.
Fetches == {None} \cup {Some(x) : x \in Prices}

PlanResults == {None} \cup {Some(x) : x \in Plans}

\* Every result lines 71-73 can have for the instrument.
Outcomes(symbol, id) ==
  {Evaluate(symbol, id, valid, prob, eq, opt, fetch, atr, plan) :
     valid \in BOOLEAN, prob \in {40, 60}, eq \in BOOLEAN, opt \in BOOLEAN,
     fetch \in Fetches, atr \in ATRs, plan \in PlanResults}

\* Lines 70-74, admitted instrument, no trade comes back: continue.
CheckSymbolNoTrade(p) ==
  /\ pc[p] = "loop"
  /\ SymbolOrder[idx[p]] \notin held[p]
  /\ ~InsufficientCapital(p)
  /\ None \in Outcomes(SymbolOrder[idx[p]], next_id)
  /\ idx' = [idx EXCEPT ![p] = NextIdx(p)]
  /\ held' = [held EXCEPT ![p] = NextHeld(p)]
  /\ pc' = [pc EXCEPT ![p] = NextPc(p)]
  /\ UNCHANGED eval
  /\ UNCHANGED <<trades, ml_model, available_capital, max_position_size,
                 pending, next_id, reserved, released>>

\* Lines 70-74, admitted instrument: execute_trade has built the trade and
\* appended it to the store (its lines 321-323 / 328-330) and returns it.
CheckSymbolOpen(p) ==
  /\ pc[p] = "loop"
  /\ SymbolOrder[idx[p]] \notin held[p]
  /\ ~InsufficientCapital(p)
  /\ next_id <= MaxTrades
  /\ \E r \in Outcomes(SymbolOrder[idx[p]], next_id) \ {None} :
       /\ trades' = Append(trades, r[1])
       /\ pending' = [pending EXCEPT ![p] = r]
  /\ next_id' = next_id + 1
  /\ pc' = [pc EXCEPT ![p] = "reserve"]
  /\ UNCHANGED eval
  /\ UNCHANGED <<ml_model, available_capital, max_position_size, idx, held,
                 reserved, released>>

\* Lines 75-78: deduct the capital the returned trade uses.
Reserve(p) ==
  /\ pc[p] = "reserve"
  /\ available_capital' =
       [available_capital EXCEPT ![p] = @ - Cost(pending[p][1])]
  /\ reserved' = [reserved EXCEPT ![p] = @ \cup {pending[p][1].id}]
  /\ pending' = [pending EXCEPT ![p] = None]
  /\ idx' = [idx EXCEPT ![p] = NextIdx(p)]
  /\ held' = [held EXCEPT ![p] = NextHeld(p)]
  /\ pc' = [pc EXCEPT ![p] = NextPc(p)]
  /\ UNCHANGED eval
  /\ UNCHANGED <<trades, ml_model, max_position_size, next_id, released>>

\* One step of PortfolioManager.check_signals.
check_signals(p) ==
  \/ CheckSignalsStart(p)
  \/ CheckSymbolSkip(p)
  \/ CheckSymbolBreak(p)
  \/ CheckSymbolNoTrade(p)
  \/ CheckSymbolOpen(p)
  \/ Reserve(p)

\* monitor_portfolio lines 97-121: the records it keeps, from the i-th on.
\* A record whose symbol has no strategy is skipped (line 100: continue)
\* before it is appended to updated_trades.
RECURSIVE UpdatedTrades(_, _, _)
UpdatedTrades(ts, i, obs) ==
  IF i > Len(ts) THEN <<>>
  ELSE (IF ts[i].symbol \notin Symbols THEN <<>>
        ELSE IF IsOpen(ts[i])
             THEN <<monitor_position(ts[i], obs[i].price, obs[i].pnl)>>
             ELSE <<ts[i]>>)
       \o UpdatedTrades(ts, i + 1, obs)

\* The ids the pass closes: open in the loaded store, closed in its result.
ClosedBy(ts, updated) ==
  {updated[j].id : j \in {k \in 1..Len(updated) :
      /\ ~IsOpen(updated[k])
      /\ \E i \in 1..Len(ts) : ts[i].id = updated[k].id /\ IsOpen(ts[i])}}

\* Lines 106-111 summed over the pass.
ReleasedCapital(ts, updated) ==
  SumSeq([j \in 1..Len(updated) |->
            IF updated[j].id \in ClosedBy(ts, updated)
            THEN Release(updated[j]) ELSE 0])

\* PortfolioManager.monitor_portfolio: load, evaluate every open position,
\* release the capital of those that closed, save.
monitor_portfolio(p) ==
  /\ pc[p] = "idle"
  /\ trades # <<>>
  /\ \E updated \in {UpdatedTrades(trades, 1, obs) :
                        obs \in [Indices -> Markets]} :
          /\ trades' = updated
          /\ available_capital' =
               [available_capital EXCEPT
                  ![p] = @ + ReleasedCapital(trades, updated)]
          /\ released' =
               [i \in Ids |-> IF i \in ClosedBy(trades, updated)
                              THEN released[i] + 1 ELSE released[i]]
  /\ UNCHANGED eval
  /\ UNCHANGED <<ml_model, max_position_size, pc, idx, held, pending,
                 next_id, reserved>>

\* ------------------------------------------------------------ PaperTrading

\* The instruments the UI session selects: one of the managed universe and
\* one S&P 500 stock outside it.
SessionSymbols == {"A", "Z"}

\* PaperTrading.execute_trade for an equity: the record of lines 18-31 with
\* the form's default bands for a Buy (price * 0.95, price * 1.05).
ManualEquity(id, symbol, price, quantity) ==
  [id |-> id, symbol |-> symbol, type |-> "equity", status |-> "open",
   quantity |-> Some(quantity), entry_price |-> Some(price),
   stop_loss |-> 95 * price, take_profit |-> 105 * price,
   max_loss |-> None, max_profit |-> None,
   exit_date |-> None, exit_price |-> None, profit |-> None]

\* PaperTrading.execute_trade for an option: entry_price is the chain's
\* lastPrice, or stays the placeholder 0 when the chain is empty.
ManualOption(id, symbol, price, quantity, premium) ==
  [id |-> id, symbol |-> symbol, type |-> "option", status |-> "open",
   quantity |-> Some(quantity), entry_price |-> Some(premium),
   stop_loss |-> 95 * price, take_profit |-> 105 * price,
   max_loss |-> None, max_profit |-> None,
   exit_date |-> None, exit_price |-> None, profit |-> None]

\* Quantities and option premiums entered or quoted in a manual trade.
ManualQuantities == {1}

Premiums == {0, 5}

\* PaperTrading.execute_trade (lines 16-55): build the record, load the
\* store, append, save.  (An option whose contract is not in a non-empty
\* chain returns None at line 48 and changes nothing.)
ManualTrade ==
  /\ next_id <= MaxTrades
  /\ \E symbol \in SessionSymbols, price \in Prices,
        quantity \in ManualQuantities :
       \/ trades' = Append(trades,
                           ManualEquity(next_id, symbol, price, quantity))
       \/ \E premium \in Premiums :
            trades' = Append(trades, ManualOption(next_id, symbol, price,
                                                  quantity, premium))
  /\ next_id' = next_id + 1
  /\ UNCHANGED eval
  /\ UNCHANGED <<ml_model, available_capital, max_position_size, pc, idx,
                 held, pending, reserved, released>>

\* PaperTrading.monitor_positions -> TradingStrategy.monitor_positions:
\* load, evaluate every record, save.  No ledger is involved.
monitor_positions ==
  /\ trades # <<>>
  /\ \E updated \in {[i \in Indices |->
                          MonitorTrade(trades[i], obs[i].price, obs[i].pnl)] :
                        obs \in [Indices -> Markets]} :
       trades' = updated
  /\ UNCHANGED eval
  /\ UNCHANGED <<ml_model, available_capital, max_position_size, pc, idx,
                 held, pending, next_id, reserved, released>>

\* ----------------------------------------------------------- specification

\* One deployment: the auto-trader's portfolio manager and the UI session's
\* paper-trading page over the same store.
Next ==
  \/ check_signals("auto")
  \/ monitor_portfolio("auto")
  \/ ManualTrade
  \/ monitor_positions

Spec == Init /\ [][Next]_vars

\* Both portfolio managers over the same store: the auto-trader checking
\* signals while the UI session's dashboard checks signals and monitors.
NextConcurrent ==
  \/ \E p \in PMs : check_signals(p)
  \/ monitor_portfolio("ui")

SpecConcurrent == Init /\ [][NextConcurrent]_vars

\* The auto-trader alone: one process, one ledger, nothing else writing the
\* store (auto_trade.py's loop).
NextLedger == check_signals("auto") \/ monitor_portfolio("auto")

SpecLedger == Init /\ [][NextLedger]_vars

\* ------------------------------------------------- the monitor, per cycle

\* Prices the data provider may report in an evaluation cycle.
MonitorPrices == {16, 17, 23, 30, 50, 104, 106, 112, 125}

\* Valuations of an options structure under the live chain (None: the chain
\* is empty).
MonitorPnls == {None, Some(-300), Some(0), Some(100)}

\* The stores one equity and one options structure make: the equity bought
\* by execute_trade at 20 (fixed or ATR bands) or by hand at 100 with the
\* form's default stop and a take-profit the user entered; the structure as
\* execute_trade persists it.
MonitoredStores ==
  {<<e, OptionsTrade(2, "B", <<250, 150>>)>> :
     e \in {EquityTrade(1, "A", 20, atr) : atr \in ATRs}
           \cup {[ManualEquity(1, "A", 100, q) EXCEPT !.take_profit = tp] :
                   q \in {1, 3}, tp \in {10500, 12000}}}

InitMonitor ==
  /\ trades \in MonitoredStores
  /\ ml_model = FALSE
  /\ available_capital = [p \in PMs |-> InitialCapital]
  /\ max_position_size = [p \in PMs |-> 2 * InitialCapital]
  /\ pc = [p \in PMs |-> "idle"]
  /\ idx = [p \in PMs |-> 0]
  /\ held = [p \in PMs |-> {}]
  /\ pending = [p \in PMs |-> None]
  /\ next_id = 3
  /\ reserved = [p \in PMs |-> {}]
  /\ released = [i \in Ids |-> 0]
  /\ eval = None

\* TradingStrategy.monitor_positions, one pass: load, evaluate every record
\* at the data the pass fetches, save; eval keeps what it fetched.
MonitorCycle ==
  /\ \E price \in MonitorPrices, pnl \in MonitorPnls :
       /\ trades' = [i \in Indices |-> MonitorTrade(trades[i], price, pnl)]
       /\ eval' = [price |-> price, pnl |-> pnl]
  /\ UNCHANGED <<ml_model, available_capital, max_position_size, pc, idx,
                 held, pending, next_id, reserved, released>>

SpecMonitor == InitMonitor /\ [][MonitorCycle]_vars

\* --------------------------------------- the monitor's options valuation

\* monitor_positions lines 377-380 and 384-385: a bought leg counts
\* negative, a sold leg positive.
LegSign(leg) == IF leg.action = "buy" THEN -1 ELSE 1

\* Lines 367-380: current_value over the legs the chain has a row for;
\* quotes[k] is the lastPrice of leg k's row, None when the chain has none
\* (line 375 then skips the leg).
CurrentValue(legs, quotes) ==
  SumSeq([k \in 1..Len(legs) |->
            IF quotes[k] = None THEN 0
            ELSE LegSign(legs[k]) * quotes[k][1] * 100 * legs[k].quantity])

\* Lines 383-387: initial_value over all legs.
InitialValue(legs) ==
  SumSeq([k \in 1..Len(legs) |->
            LegSign(legs[k]) * legs[k].premium * 100 * legs[k].quantity])

\* Lines 365-389: unrealized_pnl, None when the chain is empty (chain = None).
StructurePnl(legs, chain) ==
  IF chain = None THEN None
  ELSE Some(CurrentValue(legs, chain[1]) - InitialValue(legs))

\* The legs of a bull call spread (execute_strategy lines 319-332) bought at
\* long_premium and sold at short_premium; leg.get('quantity', 1) is 1.
SpreadLegs(long_premium, short_premium) ==
  <<[action |-> "buy", premium |-> long_premium, quantity |-> 1],
    [action |-> "sell", premium |-> short_premium, quantity |-> 1]>>

\* Premiums (long, short) at entry, the strike distance of the spread, and
\* the lastPrice values a later chain may quote.
EntryPremiums == {<<5, 2>>, <<6, 3>>}

StrikeDistance == 10

LegQuotes == {None} \cup {Some(q) : q \in {0, 1, 2, 3, 5, 6, 8, 9}}

\* The record the options branch evaluates: the structure of the spread
\* (create_vertical_spread lines 61-62 for max_loss and max_profit), carrying
\* the type tag line 361 tests for.
BranchRecord(premiums) ==
  LET max_loss == (premiums[1] - premiums[2]) * 100
      max_profit == (StrikeDistance - (premiums[1] - premiums[2])) * 100
  IN [OptionsTrade(1, "A", <<max_loss, max_profit>>) EXCEPT !.type = "options"]

\* One evaluation of the options branch (lines 361-397), from the initial
\* state: eval keeps the legs, the chain and the record before and after.
ValueStructure ==
  /\ eval = None
  /\ \E premiums \in EntryPremiums,
        chain \in {None} \cup {Some(<<l, s>>) : l \in LegQuotes,
                                                s \in LegQuotes} :
       LET legs == SpreadLegs(premiums[1], premiums[2])
           t == BranchRecord(premiums)
       IN eval' = [legs |-> legs, chain |-> chain, before |-> t,
                   after |-> MonitorTrade(t, 0, StructurePnl(legs, chain))]
  /\ UNCHANGED <<trades, ml_model, available_capital, max_position_size,
                 pc, idx, held, pending, next_id, reserved, released>>

SpecValuation == Init /\ [][ValueStructure]_vars

\* ------------------------------------- OptionsStrategy: regime selection

\* RSI values of a snapshot, the thresholds 30 and 70 among them.
RSIs == {20, 30, 50, 70, 80}

\* Distinct strikes find_strike_prices may return.
StrikeCounts == 0..4

\* C15 mutant: the range-bound test taken before the volatility test.
Regime_CondorFirst(uptrend, near_support, near_resistance, bullish_flow, rsi) ==
  LET is_trending == uptrend \/ near_support \/ near_resistance
      is_volatile == rsi > 70 \/ rsi < 30
      is_bullish == uptrend /\ near_support /\ bullish_flow
      is_bearish == ~uptrend /\ near_resistance /\ ~bullish_flow
  IN IF is_bullish /\ ~is_volatile THEN "bull_call_spread"
     ELSE IF is_bearish /\ ~is_volatile THEN "bear_put_spread"
     ELSE IF ~is_trending THEN "iron_condor"
     ELSE IF is_volatile THEN "butterfly"
     ELSE "none"

\* select_best_strategy lines 260-290: the structure the if/elif chain
\* sends to construction ("none": no branch matches).
Regime(uptrend, near_support, near_resistance, bullish_flow, rsi) ==
  LET is_trending == uptrend \/ near_support \/ near_resistance
      is_volatile == rsi > 70 \/ rsi < 30
      is_bullish == uptrend /\ near_support /\ bullish_flow
      is_bearish == ~uptrend /\ near_resistance /\ ~bullish_flow
  IN IF is_bullish /\ ~is_volatile THEN "bull_call_spread"
     ELSE IF is_bearish /\ ~is_volatile THEN "bear_put_spread"
     ELSE IF is_volatile THEN "butterfly"
     ELSE IF ~is_trending THEN "iron_condor"
     ELSE "none"

\* The distinct strikes a structure needs (lines 43, 197, 124).
StrikesNeeded(kind) ==
  IF kind = "butterfly" THEN 3 ELSE IF kind = "iron_condor" THEN 4 ELSE 2

\* create_vertical_spread / create_butterfly / create_iron_condor: None
\* with too few strikes; otherwise each leg is options_df[strike, type]
\* .iloc[0] on the chain filtered to the expiry, which raises IndexError
\* when the chain has no such row (rows = FALSE); else the structure.
Construct(kind, strikes, rows) ==
  IF strikes < StrikesNeeded(kind) THEN "none"
  ELSE IF ~rows THEN "raise"
  ELSE kind

\* OptionsStrategy.select_best_strategy: "none" (returns None), "raise"
\* (an exception leaves it) or the kind of the structure returned.  s is
\* the snapshot (tech_signals and options_signals).
select_best_strategy(expiry, s, strikes, rows) ==
  IF ~expiry THEN "none"
  ELSE LET kind == Regime(s.uptrend, s.near_support, s.near_resistance,
                          s.bullish_flow, s.rsi)
       IN IF kind = "none" THEN "none" ELSE Construct(kind, strikes, rows)

\* One call of select_best_strategy, from the initial state; eval keeps the
\* snapshot, the chain's state and the result.
SelectStrategy ==
  /\ eval = None
  /\ \E expiry \in BOOLEAN, uptrend \in BOOLEAN, near_support \in BOOLEAN,
        near_resistance \in BOOLEAN, bullish_flow \in BOOLEAN, rsi \in RSIs,
        strikes \in StrikeCounts, rows \in BOOLEAN :
       eval' = [expiry |-> expiry, uptrend |-> uptrend,
                near_support |-> near_support,
                near_resistance |-> near_resistance,
                bullish_flow |-> bullish_flow, rsi |-> rsi,
                strikes |-> strikes, rows |-> rows,
                result |-> select_best_strategy(expiry,
                             [uptrend |-> uptrend,
                              near_support |-> near_support,
                              near_resistance |-> near_resistance,
                              bullish_flow |-> bullish_flow, rsi |-> rsi],
                             strikes, rows)]
  /\ UNCHANGED <<trades, ml_model, available_capital, max_position_size,
                 pc, idx, held, pending, next_id, reserved, released>>

SpecSelect == Init /\ [][SelectStrategy]_vars

\* ------------------------------------- execute_trade: options risk bands

\* Bollinger band widths of a snapshot, in hundredths (0: not available).
BollingerWidths == {0, 5, 10, 15}

\* (max_loss, max_profit) of the structure select_best_strategy returned.
StructurePlans ==
  {<<max_loss, max_profit>> : max_loss \in {100, 250, 300, 500},
                              max_profit \in {150, 700}}

\* execute_trade lines 297-308: the bands (hundredths) the if/elif/else on
\* the snapshot assigns to trade['stop_loss'] and trade['take_profit'].
RegimeBands(uptrend, bullish_flow, bollinger_width, plan) ==
  IF uptrend /\ bullish_flow THEN <<100 * plan[1], 70 * plan[2]>>
  ELSE IF bollinger_width # 0 /\ bollinger_width > 10
  THEN <<70 * plan[1], 40 * plan[2]>>
  ELSE <<80 * plan[1], 50 * plan[2]>>

\* One call of execute_trade('options') that builds a structure, from the
\* initial state: lines 297-308 assign the regime's bands, lines 317-318
\* assign stop_loss and take_profit again, and lines 321-323 persist the
\* record, which is OptionsTrade.  eval keeps the snapshot and the record.
BuildOptionsTrade ==
  /\ eval = None
  /\ \E uptrend \in BOOLEAN, bullish_flow \in BOOLEAN,
        bollinger_width \in BollingerWidths, plan \in StructurePlans :
       eval' = [uptrend |-> uptrend, bullish_flow |-> bullish_flow,
                bollinger_width |-> bollinger_width, plan |-> plan,
                assigned |-> RegimeBands(uptrend, bullish_flow,
                                         bollinger_width, plan),
                trade |-> OptionsTrade(1, "A", plan)]
  /\ UNCHANGED <<trades, ml_model, available_capital, max_position_size,
                 pc, idx, held, pending, next_id, reserved, released>>

SpecBands == Init /\ [][BuildOptionsTrade]_vars

\* -------------------------------------- should_enter_trade: the two gates

\* The signal snapshots of one instrument with valid price data: the price
\* is 100; rsi, support, the two moving averages, the analysts'
\* recommendation and the options flow statistics vary (put_call_ratio in
\* hundredths).
Snapshots ==
  [price : {100}, rsi : {25, 35, 42, 50}, support : {90, 96, 99},
   sma_20 : {95, 105}, sma_50 : {90, 110}, analyst_bullish : BOOLEAN,
   bullish_flow : BOOLEAN, strong_flow : BOOLEAN,
   put_call_ratio : {70, 90}, high_activity : BOOLEAN]

\* get_technical_signals lines 78, 80, 83.
Oversold(s) == s.rsi < 30

Uptrend(s) == s.sma_20 > s.sma_50

NearSupport(s) == 100 * s.price <= 102 * s.support

\* should_enter_trade lines 198-203.
EquityConditions(s) ==
  /\ Oversold(s) \/ s.rsi < 40
  /\ NearSupport(s) \/ 100 * s.price <= 105 * s.support
  /\ Uptrend(s) \/ s.price > s.sma_20
  /\ s.analyst_bullish

\* should_enter_trade lines 206-212.
OptionsConditions(s) ==
  /\ Oversold(s) \/ s.rsi < 45
  /\ s.bullish_flow
  /\ s.strong_flow \/ s.put_call_ratio < 80
  /\ s.high_activity
  /\ s.analyst_bullish

\* Probabilities (percent) the scoring model may predict.
Probabilities == {40, 50, 60}

\* One call of should_enter_trade, from the initial state (ml_model: the
\* model file was loaded and attached); eval keeps what it read and
\* returned.
EnterDecision ==
  /\ eval = None
  /\ \E s \in Snapshots, valid \in BOOLEAN, prob \in Probabilities :
       eval' = [snapshot |-> s, valid |-> valid, prob |-> prob,
                decision |-> should_enter_trade(valid, ml_model, prob,
                               EquityConditions(s), OptionsConditions(s))]
  /\ UNCHANGED <<trades, ml_model, available_capital, max_position_size,
                 pc, idx, held, pending, next_id, reserved, released>>

SpecEnter == Init /\ [][EnterDecision]_vars

\* ------------------------------------ from the gate decision to the trade

\* Snapshots of an instrument priced 20 or 25, as should_enter_trade and,
\* later, execute_trade may each fetch them.
TradeSnapshots ==
  [price : {20, 25}, rsi : {35, 42}, support : {20, 24}, sma_20 : {15},
   sma_50 : {10}, analyst_bullish : {TRUE}, bullish_flow : BOOLEAN,
   strong_flow : {TRUE}, put_call_ratio : {70}, high_activity : {TRUE}]

\* check_signals lines 71-73 for one instrument, from the initial state:
\* should_enter_trade decides on the snapshot it fetches (gate, lines
\* 160-168); execute_trade fetches its own (lines 229, 247-248), takes price
\* and bands from it and stores it as the trade's 'signals' (lines 245-250,
\* 270, 315).  eval keeps both snapshots and the trade.
SignalToTrade ==
  /\ eval = None
  /\ \E gate \in TradeSnapshots, fetched \in TradeSnapshots, atr \in ATRs,
        plan \in PlanResults :
       eval' = [gate |-> gate, signals |-> fetched, atr |-> atr,
                trade |-> Evaluate("A", 1, TRUE, 60,
                                   EquityConditions(gate),
                                   OptionsConditions(gate),
                                   Some(fetched.price), atr, plan)]
  /\ UNCHANGED <<trades, ml_model, available_capital, max_position_size,
                 pc, idx, held, pending, next_id, reserved, released>>

SpecSnapshot == Init /\ [][SignalToTrade]_vars

\* ----------------------------- check_signals, one cycle, by data available

\* What the data provider has for one instrument during one cycle: None when
\* its history is missing or shorter than 50 bars (get_technical_signals
\* lines 26-40 then return the snapshot with price None), else the gate
\* conditions, price and ATR computed from it.
CycleData ==
  {None} \cup {Some(d) : d \in [eq : BOOLEAN, opt : BOOLEAN, price : Prices,
                                atr : ATRs]}

\* The stores a cycle may find: empty, or one open equity position of an
\* earlier cycle.
CycleStores ==
  {<<>>} \cup {<<EquityTrade(1, s, 20, atr)>> : s \in Symbols, atr \in ATRs}

\* get_portfolio_stats lines 148-153: for an open equity position of a
\* managed instrument, get_technical_signals()['price'] - entry_price; on
\* the snapshot with price None the subtraction raises TypeError.
StatsRaises(ts, data) ==
  \E i \in 1..Len(ts) :
    /\ IsOpen(ts[i]) /\ ts[i].type = "equity"
    /\ ts[i].symbol \in Symbols /\ data[ts[i].symbol] = None

\* Lines 71-73 for instrument s when the cycle's data is d.
CycleOutcome(s, id, d) ==
  IF d = None
  THEN Evaluate(s, id, FALSE, 60, FALSE, FALSE, None, 0, None)
  ELSE Evaluate(s, id, TRUE, 60, d[1].eq, d[1].opt, Some(d[1].price),
                d[1].atr, Some(<<250, 150>>))

\* check_signals lines 58-82 from the k-th instrument on.  st holds the
\* store, available_capital, the instruments that reached line 70 and the
\* next id; loaded is the store of line 57, mps the max_position_size.
RECURSIVE CycleFrom(_, _, _, _, _)
CycleFrom(k, data, loaded, mps, st) ==
  IF k > Len(SymbolOrder) THEN st
  ELSE LET s == SymbolOrder[k]
           r == CycleOutcome(s, st.next, data[s])
       IN IF s \in OpenSymbols(loaded)
          THEN CycleFrom(k + 1, data, loaded, mps, st)
          ELSE IF 100 * st.capital < mps THEN st
          ELSE CycleFrom(k + 1, data, loaded, mps,
                 [trades |-> IF r = None THEN st.trades
                             ELSE Append(st.trades, r[1]),
                  capital |-> IF r = None THEN st.capital
                              ELSE st.capital - Cost(r[1]),
                  evaluated |-> st.evaluated \cup {s},
                  next |-> IF r = None THEN st.next ELSE st.next + 1])

\* The market data get_portfolio_stats reads for record i of the store.
CycleObs(ts, data) ==
  [i \in 1..Len(ts) |->
     [price |-> IF ts[i].symbol \in Symbols /\ data[ts[i].symbol] # None
                THEN data[ts[i].symbol][1].price ELSE 0,
      pnl |-> None]]

InitCycle ==
  /\ trades \in CycleStores
  /\ ml_model = TRUE
  /\ available_capital = [p \in PMs |-> InitialCapital]
  /\ max_position_size = [p \in PMs |-> 2 * InitialCapital]
  /\ pc = [p \in PMs |-> "idle"]
  /\ idx = [p \in PMs |-> 0]
  /\ held = [p \in PMs |-> {}]
  /\ pending = [p \in PMs |-> None]
  /\ next_id = Len(trades) + 1
  /\ reserved = [p \in PMs |-> {}]
  /\ released = [i \in Ids |-> 0]
  /\ eval = None

\* One whole call of check_signals by the auto-trader under the data of the
\* cycle.  When get_portfolio_stats raises at line 54, which no try
\* encloses, the exception leaves check_signals and nothing else happens.
\* eval keeps the data, the store before, whether the call raised and the
\* instruments it evaluated.
CheckSignalsCycle ==
  /\ eval = None
  /\ \E data \in [Symbols -> CycleData] :
       LET raised == StatsRaises(trades, data)
           mps == 2 * CurrentCapital(trades, CycleObs(trades, data))
           st == IF raised
                 THEN [trades |-> trades, capital |-> available_capital["auto"],
                       evaluated |-> {}, next |-> next_id]
                 ELSE CycleFrom(1, data, trades, mps,
                        [trades |-> trades,
                         capital |-> available_capital["auto"],
                         evaluated |-> {}, next |-> next_id])
       IN /\ trades' = st.trades
          /\ available_capital' = [available_capital EXCEPT !["auto"] = st.capital]
          /\ max_position_size' =
               IF raised THEN max_position_size
               ELSE [max_position_size EXCEPT !["auto"] = mps]
          /\ next_id' = st.next
          /\ eval' = [data |-> data, before |-> trades, raised |-> raised,
                      evaluated |-> st.evaluated]
  /\ UNCHANGED <<ml_model, pc, idx, held, pending, reserved, released>>

SpecCycle == InitCycle /\ [][CheckSignalsCycle]_vars

\* --------------------------------------- utils: the position store's file

\* json.dump / json.load of the values of a position: None is written as
\* null, a number as a number, a string as a string, and read back so.
JsonOptional(x) == IF x = None THEN <<"null">> ELSE <<"number", x[1]>>

JsonNumber(n) == <<"number", n>>

JsonString(s) == <<"string", s>>

FromJsonOptional(j) == IF j[1] = "null" THEN None ELSE Some(j[2])

\* The JSON object json.dump writes for one position.
ToJson(t) ==
  [id |-> JsonNumber(t.id), symbol |-> JsonString(t.symbol),
   type |-> JsonString(t.type), status |-> JsonString(t.status),
   quantity |-> JsonOptional(t.quantity),
   entry_price |-> JsonOptional(t.entry_price),
   stop_loss |-> JsonNumber(t.stop_loss),
   take_profit |-> JsonNumber(t.take_profit),
   max_loss |-> JsonOptional(t.max_loss),
   max_profit |-> JsonOptional(t.max_profit),
   exit_date |-> IF t.exit_date = None THEN <<"null">>
                 ELSE JsonString(t.exit_date[1]),
   exit_price |-> JsonOptional(t.exit_price),
   profit |-> JsonOptional(t.profit)]

\* The dict json.load builds from one JSON object.
FromJson(o) ==
  [id |-> o.id[2], symbol |-> o.symbol[2], type |-> o.type[2],
   status |-> o.status[2],
   quantity |-> FromJsonOptional(o.quantity),
   entry_price |-> FromJsonOptional(o.entry_price),
   stop_loss |-> o.stop_loss[2], take_profit |-> o.take_profit[2],
   max_loss |-> FromJsonOptional(o.max_loss),
   max_profit |-> FromJsonOptional(o.max_profit),
   exit_date |-> FromJsonOptional(o.exit_date),
   exit_price |-> FromJsonOptional(o.exit_price),
   profit |-> FromJsonOptional(o.profit)]

\* data/paper_trades.json: absent, text json.load rejects, or the JSON array
\* save_trades wrote.
MissingFile == [exists |-> FALSE, array |-> None]

MalformedFile == [exists |-> TRUE, array |-> None]

\* utils.save_trades: the file after json.dump(trades, f, indent=4).
save_trades(ts) ==
  [exists |-> TRUE, array |-> Some([i \in 1..Len(ts) |-> ToJson(ts[i])])]

\* C23 mutant: load_trades without the try/except of lines 13-17.
load_trades_NoExcept(file) ==
  IF ~file.exists THEN [raised |-> FALSE, value |-> <<>>]
  ELSE IF file.array = None THEN [raised |-> TRUE, value |-> <<>>]
  ELSE [raised |-> FALSE,
        value |-> [i \in 1..Len(file.array[1]) |-> FromJson(file.array[1][i])]]

\* utils.load_trades: [] when the file does not exist (lines 9-11) or
\* json.load raises (lines 16-17), else the list json.load returns.
load_trades(file) ==
  IF ~file.exists THEN [raised |-> FALSE, value |-> <<>>]
  ELSE IF file.array = None THEN [raised |-> FALSE, value |-> <<>>]
  ELSE [raised |-> FALSE,
        value |-> [i \in 1..Len(file.array[1]) |-> FromJson(file.array[1][i])]]

\* Positions a store may hold: open and closed, equity and options, made by
\* the strategy or by hand.
StoreRecords ==
  LET e == EquityTrade(1, "A", 20, 0)
      o == OptionsTrade(1, "B", <<250, 150>>)
      m == ManualEquity(1, "Z", 50, 1)
  IN {e, MonitorEquity(e, 16), MonitorEquity(e, 50),
      [MonitorEquity(e, 23) EXCEPT !.status = "open"],
      o, [o EXCEPT !.status = "closed", !.exit_date = Some("now"),
                   !.profit = Some(-300)],
      m, MonitorEquity(m, 20), ManualOption(1, "A", 20, 1, 5),
      ManualOption(1, "Z", 50, 1, 0)}

\* The stores of up to two positions.
SavedStores ==
  {<<>>} \cup {<<r>> : r \in StoreRecords}
         \cup {<<r, [q EXCEPT !.id = 2]>> : r \in StoreRecords,
                                             q \in StoreRecords}

\* One call of load_trades, from the initial state, on a file that is
\* missing, malformed or was written by save_trades; eval keeps the store
\* that was saved (None: there was none), the file and the result.
LoadStore ==
  /\ eval = None
  /\ \/ \E file \in {MissingFile, MalformedFile} :
          eval' = [saved |-> None, file |-> file, loaded |-> load_trades(file)]
     \/ \E ts \in SavedStores :
          eval' = [saved |-> Some(ts), file |-> save_trades(ts),
                   loaded |-> load_trades(save_trades(ts))]
  /\ UNCHANGED <<trades, ml_model, available_capital, max_position_size,
                 pc, idx, held, pending, next_id, reserved, released>>

SpecStore == Init /\ [][LoadStore]_vars

\* ------------------------------- OptionsStrategy: the vertical spread

\* What find_strike_prices may return: the sorted strikes of the chain
\* within 5% of a price of 100.
CandidateStrikes ==
  {<<>>, <<98>>, <<100>>, <<102>>, <<98, 100>>, <<98, 102>>, <<100, 102>>,
   <<98, 100, 102>>}

\* lastPrice of the row of a strike with the spread's option type (CALL
\* for a bull call, PUT for a bear put), in cents (None: no such row).
RowPremiums == {None, Some(150), Some(250), Some(400)}

\* C24 mutant: the bull call's short leg at the second candidate strike.
create_vertical_spread_SecondStrike(spread_type, strikes, rows) ==
  IF Len(strikes) < 2 THEN [kind |-> "none"]
  ELSE LET bull == spread_type = "bull_call"
           long_strike == IF bull THEN strikes[1] ELSE strikes[Len(strikes)]
           short_strike == IF bull THEN strikes[2] ELSE strikes[1]
       IN IF rows[long_strike] = None \/ rows[short_strike] = None
          THEN [kind |-> "raise"]
          ELSE LET max_loss == rows[long_strike][1] - rows[short_strike][1]
               IN [kind |-> IF bull THEN "bull_call_spread"
                            ELSE "bear_put_spread",
                   long_strike |-> long_strike,
                   short_strike |-> short_strike,
                   max_loss |-> max_loss,
                   max_profit |->
                     IF bull
                     THEN 100 * short_strike - 100 * long_strike - max_loss
                     ELSE 100 * long_strike - 100 * short_strike - max_loss,
                   break_even |->
                     IF bull THEN 100 * long_strike + max_loss
                     ELSE 100 * long_strike - max_loss]

\* create_vertical_spread, lines 42-116.  Premiums are in cents, so
\* max_loss = (long - short lastPrice) * 100 is their difference in dollars;
\* max_profit = (short_strike - long_strike - max_loss/100) * 100 (bull call;
\* long - short for the bear put) in dollars; break_even = long_strike +/-
\* max_loss/100 is kept in cents.  .iloc[0] on a strike without a row of the
\* option type raises IndexError.
create_vertical_spread(spread_type, strikes, rows) ==
  IF Len(strikes) < 2 THEN [kind |-> "none"]
  ELSE LET bull == spread_type = "bull_call"
           long_strike == IF bull THEN strikes[1] ELSE strikes[Len(strikes)]
           short_strike == IF bull THEN strikes[Len(strikes)] ELSE strikes[1]
       IN IF rows[long_strike] = None \/ rows[short_strike] = None
          THEN [kind |-> "raise"]
          ELSE LET max_loss == rows[long_strike][1] - rows[short_strike][1]
               IN [kind |-> IF bull THEN "bull_call_spread"
                            ELSE "bear_put_spread",
                   long_strike |-> long_strike,
                   short_strike |-> short_strike,
                   max_loss |-> max_loss,
                   max_profit |->
                     IF bull
                     THEN 100 * short_strike - 100 * long_strike - max_loss
                     ELSE 100 * long_strike - 100 * short_strike - max_loss,
                   break_even |->
                     IF bull THEN 100 * long_strike + max_loss
                     ELSE 100 * long_strike - max_loss]

\* One call of create_vertical_spread, from the initial state; eval keeps
\* the spread type, the candidate strikes, the chain's rows and the result.
CreateSpread ==
  /\ eval = None
  /\ \E spread_type \in {"bull_call", "bear_put"},
        strikes \in CandidateStrikes,
        rows \in [{98, 100, 102} -> RowPremiums] :
       eval' = [spread_type |-> spread_type, strikes |-> strikes,
                calls |-> rows,
                spread |-> create_vertical_spread(spread_type, strikes,
                                                  rows)]
  /\ UNCHANGED <<trades, ml_model, available_capital, max_position_size,
                 pc, idx, held, pending, next_id, reserved, released>>

SpecSpread == Init /\ [][CreateSpread]_vars

\* ------------------------------------------ auto_trade: the startup retry

\* What one iteration of the retry loop (lines 53-72) can meet:
\* PortfolioManager() runs initialize_portfolio in its constructor and drops
\* the result (ctor: strategies were built or not); then the explicit call
\* of line 57 returns True ("ok") or False ("false"), or the iteration
\* raises ("raise").
AttemptOutcomes ==
  [ctor : {"ok", "false"}, call : {"ok", "false", "raise"}]

\* In this specification eval is the state of run_automated_trading: where
\* it stands, retry_count, the outcomes of the attempts made so far and the
\* number of trading cycles run.
InitStartup ==
  /\ trades = <<>>
  /\ ml_model \in BOOLEAN
  /\ available_capital = [p \in PMs |-> InitialCapital]
  /\ max_position_size = [p \in PMs |-> 2 * InitialCapital]
  /\ pc = [p \in PMs |-> "idle"]
  /\ idx = [p \in PMs |-> 0]
  /\ held = [p \in PMs |-> {}]
  /\ pending = [p \in PMs |-> None]
  /\ next_id = 1
  /\ reserved = [p \in PMs |-> {}]
  /\ released = [i \in Ids |-> 0]
  /\ eval = [at |-> "retry", retry_count |-> 0, history |-> <<>>,
             cycles |-> 0]

\* Lines 53-72, one iteration of `while retry_count < max_retries`.  On
\* success: break, to the trading loop.  On a False return: count, sleep,
\* continue; when the count reaches max_retries the while condition ends
\* the loop and control falls through to the trading loop of line 74.  On an
\* exception: count; retry below max_retries, else return (line 72).
AttemptInitialization ==
  /\ eval.at = "retry"
  /\ eval.retry_count < MaxRetries
  /\ \E o \in AttemptOutcomes :
       LET n == IF o.call = "ok" THEN eval.retry_count
                ELSE eval.retry_count + 1
           at == IF o.call = "ok" THEN "trading"
                 ELSE IF n < MaxRetries THEN "retry"
                 ELSE IF o.call = "false" THEN "trading"
                 ELSE "exited"
       IN eval' = [at |-> at, retry_count |-> n,
                   history |-> Append(eval.history, o),
                   cycles |-> eval.cycles]
  /\ UNCHANGED <<trades, ml_model, available_capital, max_position_size,
                 pc, idx, held, pending, next_id, reserved, released>>

\* Lines 74-142, one pass of `while True`: check_signals, monitor_portfolio
\* and the status report on the `portfolio` of the last attempt.  The store
\* is empty here, so the pass leaves it empty.
TradingCycle ==
  /\ eval.at = "trading"
  /\ eval.cycles < MaxCycles
  /\ eval' = [eval EXCEPT !.cycles = @ + 1]
  /\ UNCHANGED <<trades, ml_model, available_capital, max_position_size,
                 pc, idx, held, pending, next_id, reserved, released>>

NextStartup == AttemptInitialization \/ TradingCycle

SpecStartup == InitStartup /\ [][NextStartup]_vars

\* ------------------------------ the monitor, by the session's instrument

\* Closing prices of each instrument the session may select.
QuotesOf(symbol) == IF symbol = "A" THEN {18, 20, 23} ELSE {45, 50, 56}

\* Stores with one open equity position in each of the two instruments,
\* entered by hand at 20 and at 50.
SessionStores ==
  {<<ManualEquity(1, "A", 20, q), ManualEquity(2, "Z", 50, r)>> :
     q \in {1, 3}, r \in {1, 3}}
  \cup {<<ManualEquity(1, "Z", 50, q), ManualEquity(2, "A", 20, r)>> :
          q \in {1, 3}, r \in {1, 3}}

InitSession ==
  /\ trades \in SessionStores
  /\ ml_model = FALSE
  /\ available_capital = [p \in PMs |-> InitialCapital]
  /\ max_position_size = [p \in PMs |-> 2 * InitialCapital]
  /\ pc = [p \in PMs |-> "idle"]
  /\ idx = [p \in PMs |-> 0]
  /\ held = [p \in PMs |-> {}]
  /\ pending = [p \in PMs |-> None]
  /\ next_id = 3
  /\ reserved = [p \in PMs |-> {}]
  /\ released = [i \in Ids |-> 0]
  /\ eval = None

\* PaperTrading(symbol).monitor_positions() -> TradingStrategy(symbol)
\* .monitor_positions(): every record of the store is evaluated at
\* self.get_technical_signals()['price'], the price of the session's symbol
\* (lines 341, 344); the loop has no test on trade['symbol'].  eval keeps
\* the symbol and the price fetched.
MonitorSession ==
  /\ \E symbol \in SessionSymbols :
       \E price \in QuotesOf(symbol) :
         /\ trades' = [i \in Indices |-> MonitorTrade(trades[i], price, None)]
         /\ eval' = [symbol |-> symbol, price |-> price]
  /\ UNCHANGED <<ml_model, available_capital, max_position_size, pc, idx,
                 held, pending, next_id, reserved, released>>

SpecSession == InitSession /\ [][MonitorSession]_vars

\* ------------------------------------------- the auto-trader, restarted

\* The process of instance p ends between two cycles and a new
\* PortfolioManager() is constructed over the store as it is (__init__
\* lines 9-15): available_capital = initial_capital and max_position_size =
\* initial_capital * 0.02; the store is not read.  The new ledger has
\* deducted nothing.
Restart(p) ==
  /\ pc[p] = "idle"
  /\ available_capital' = [available_capital EXCEPT ![p] = InitialCapital]
  /\ max_position_size' = [max_position_size EXCEPT ![p] = 2 * InitialCapital]
  /\ reserved' = [reserved EXCEPT ![p] = {}]
  /\ UNCHANGED eval
  /\ UNCHANGED <<trades, ml_model, pc, idx, held, pending, next_id, released>>

NextRestart ==
  \/ check_signals("auto")
  \/ monitor_portfolio("auto")
  \/ Restart("auto")

SpecRestart == Init /\ [][NextRestart]_vars

\* --------------------------- the shared store: creation against a monitor

\* In this specification eval holds the locals of two processes over the
\* same file: the auto-trader inside execute_trade (writer: its position in
\* lines 321-323 / 328-330, the list it loaded, the trade it built) and
\* another session or process inside a monitor pass (monitor: its position
\* and the list it loaded), and as history the ids whose creation and whose
\* close have been saved.
InitShared ==
  /\ trades = <<>>
  /\ ml_model \in BOOLEAN
  /\ available_capital = [p \in PMs |-> InitialCapital]
  /\ max_position_size = [p \in PMs |-> 2 * InitialCapital]
  /\ pc = [p \in PMs |-> "idle"]
  /\ idx = [p \in PMs |-> 0]
  /\ held = [p \in PMs |-> {}]
  /\ pending = [p \in PMs |-> None]
  /\ next_id = 1
  /\ reserved = [p \in PMs |-> {}]
  /\ released = [i \in Ids |-> 0]
  /\ eval = [writer |-> [at |-> "idle", loaded |-> <<>>, trade |-> None],
             monitor |-> [at |-> "idle", loaded |-> <<>>],
             saved |-> {}, closed |-> {}]

\* The trades execute_trade may have built when it reaches its save.
CreatedTrades(id) ==
  {EquityTrade(id, s, 20, atr) : s \in Symbols, atr \in ATRs}
  \cup {OptionsTrade(id, s, <<250, 150>>) : s \in Symbols}

\* execute_trade line 321 / 328: trades = load_trades(), the trade built.
CreateLoad ==
  /\ eval.writer.at = "idle"
  /\ next_id <= MaxTrades
  /\ \E t \in CreatedTrades(next_id) :
       eval' = [eval EXCEPT !.writer = [at |-> "loaded", loaded |-> trades,
                                        trade |-> Some(t)]]
  /\ next_id' = next_id + 1
  /\ UNCHANGED <<trades, ml_model, available_capital, max_position_size,
                 pc, idx, held, pending, reserved, released>>

\* execute_trade lines 322-323 / 329-330: trades.append(trade);
\* save_trades(trades), on the list loaded before.
CreateSave ==
  /\ eval.writer.at = "loaded"
  /\ trades' = Append(eval.writer.loaded, eval.writer.trade[1])
  /\ eval' = [eval EXCEPT
                !.writer = [at |-> "idle", loaded |-> <<>>, trade |-> None],
                !.saved = @ \cup {eval.writer.trade[1].id}]
  /\ UNCHANGED <<ml_model, available_capital, max_position_size, pc, idx,
                 held, pending, next_id, reserved, released>>

\* monitor_portfolio line 94 / monitor_positions line 336: load_trades().
MonitorLoad ==
  /\ eval.monitor.at = "idle"
  /\ trades # <<>>
  /\ eval' = [eval EXCEPT !.monitor = [at |-> "loaded", loaded |-> trades]]
  /\ UNCHANGED <<trades, ml_model, available_capital, max_position_size,
                 pc, idx, held, pending, next_id, reserved, released>>

\* What a pass makes of the list it loaded: the updated_trades of
\* monitor_portfolio (lines 97-121) or of monitor_positions (lines 339-399).
PassResults(ts) ==
  {UpdatedTrades(ts, 1, obs) : obs \in [1..Len(ts) -> Markets]}
  \cup {[i \in 1..Len(ts) |-> MonitorTrade(ts[i], obs[i].price, obs[i].pnl)] :
          obs \in [1..Len(ts) -> Markets]}

\* monitor_portfolio line 123 / monitor_positions line 401:
\* save_trades(updated_trades), the whole list.
MonitorSave ==
  /\ eval.monitor.at = "loaded"
  /\ \E updated \in PassResults(eval.monitor.loaded) :
       /\ trades' = updated
       /\ eval' = [eval EXCEPT
                     !.monitor = [at |-> "idle", loaded |-> <<>>],
                     !.closed = @ \cup ClosedBy(eval.monitor.loaded, updated)]
  /\ UNCHANGED <<ml_model, available_capital, max_position_size, pc, idx,
                 held, pending, next_id, reserved, released>>

NextShared == CreateLoad \/ CreateSave \/ MonitorLoad \/ MonitorSave

SpecShared == InitShared /\ [][NextShared]_vars

\* -------------------------------------------------------------- properties

\* The capital a position reserves according to the ledger's contract:
\* entry_price * quantity for an equity, max_loss for an options position.
ReservedCapital(t) ==
  IF t.type = "equity" THEN t.entry_price[1] * t.quantity[1]
  ELSE t.max_loss[1]

\* The records of the store whose capital instance p deducted.
LedgerPositions(p) == {i \in Indices : trades[i].id \in reserved[p]}

RECURSIVE SumOver(_, _)
SumOver(S, f) ==
  IF S = {} THEN 0
  ELSE LET x == CHOOSE y \in S : TRUE IN f[x] + SumOver(S \ {x}, f)

\* C1: available_capital is >= 0 in every reachable state.
C1_CapitalNonNegative == \A p \in PMs : available_capital[p] >= 0

\* C2: capital conservation: available_capital plus the capital reserved by
\* the ledger's open positions equals the initial capital plus the realized
\* profit of its closed positions.
C2_CapitalConservation ==
  \A p \in PMs :
    available_capital[p]
      + SumOver({i \in LedgerPositions(p) : IsOpen(trades[i])},
                [i \in Indices |-> IF IsOpen(trades[i])
                                   THEN ReservedCapital(trades[i]) ELSE 0])
    = InitialCapital
      + SumOver({i \in LedgerPositions(p) : ~IsOpen(trades[i])},
                [i \in Indices |-> RealizedProfit(trades[i])])

\* C3: diversification: for every symbol the store holds at most one open
\* position.
C3_OneOpenPerSymbol ==
  \A i, j \in Indices :
    (i # j /\ IsOpen(trades[i]) /\ IsOpen(trades[j]))
      => trades[i].symbol # trades[j].symbol

\* C4: admission is an atomic check-then-commit: two evaluators are never
\* both between a capital check passed against the same available_capital
\* value and the reservation that follows it.
C4_AdmissionSerialized ==
  \A p, q \in PMs :
    (p # q /\ pc[p] = "reserve" /\ pc[q] = "reserve")
      => available_capital[p] # available_capital[q]

\* C5: the capital of every position a ledger reserved is released exactly
\* once, when the position closes: not while it is open, and once for a
\* position that is closed, whichever component closed it.
C5_ReleasedExactlyOnce ==
  \A p \in PMs : \A i \in LedgerPositions(p) :
    released[trades[i].id] = (IF IsOpen(trades[i]) THEN 0 ELSE 1)

\* C6: capital is reserved before a position is persisted: every open
\* position in the store has had its capital deducted by a ledger.
C6_ReservedBeforePersisted ==
  \A i \in Indices :
    IsOpen(trades[i]) => \E p \in PMs : trades[i].id \in reserved[p]

C8_ClosedTerminal ==
  [][\A i \in Indices :
       ~IsOpen(trades[i]) =>
         \A j \in 1..Len(trades') :
           trades'[j].id = trades[i].id => trades'[j] = trades[i]]_vars

\* C8 witness: the ledger opened two positions on one symbol and both are
\* closed: the second was admitted, monitored and closed while the first
\* lay closed in the store.
C8_Witness ==
  \E i, j \in LedgerPositions("auto") :
    /\ i # j
    /\ trades[i].symbol = trades[j].symbol
    /\ ~IsOpen(trades[i]) /\ ~IsOpen(trades[j])

\* C9: admission gate: check_signals creates a position for a symbol only
\* if, at that moment, the store holds no open position on the symbol and
\* available_capital >= max_position_size.
C9_AdmissionGate ==
  [][\A p \in PMs :
       (pc[p] = "loop" /\ pc'[p] = "reserve") =>
         /\ SymbolOrder[idx[p]] \notin OpenSymbols(trades)
         /\ 100 * available_capital[p] >= max_position_size[p]]_vars

\* C10: within a check_signals cycle available_capital decreases by exactly
\* entry_price * quantity (equity) or max_loss (options) in the step that
\* follows the opening of a position, and nothing else changes it while the
\* cycle runs; the cycle goes to that step exactly when it has added a
\* position to the store.
C10_ReservationAmount ==
  [][\A p \in PMs :
       CASE pc[p] = "reserve" ->
              available_capital'[p] =
                IF pc'[p] = "reserve" THEN available_capital[p]
                ELSE available_capital[p] - ReservedCapital(pending[p][1])
         [] pc[p] = "loop" ->
              /\ available_capital'[p] = available_capital[p]
              /\ (pc'[p] = "reserve") = (Len(trades') = Len(trades) + 1
                                         /\ pending'[p] # None)
         [] OTHER -> TRUE]_vars

\* C10 witness: a cycle has opened an equity and an options position and
\* deducted both.
C10_Witness ==
  /\ pc["auto"] = "idle"
  /\ \E i, j \in LedgerPositions("auto") :
       /\ trades[i].type = "equity"
       /\ trades[j].type = "options_strategy"
       /\ available_capital["auto"] =
            InitialCapital - trades[i].entry_price[1] * trades[i].quantity[1]
                           - trades[j].max_loss[1]

\* P&L% > 10 of an equity bought at entry, at price.
GainOverTen(entry, price) == (price - entry) * 100 > 10 * entry

\* max(stop, price * 0.95), in hundredths.
RaisedStop(stop, price) == IF 95 * price > stop THEN 95 * price ELSE stop

\* C11: in every evaluation cycle of an open equity position stop_loss does
\* not decrease; it becomes max(old stop_loss, price * 0.95) when P&L% > 10
\* and stays as it is otherwise; take_profit, entry_price and quantity do
\* not change.
C11_TrailingStop ==
  [][\A i \in Indices :
       (trades[i].type = "equity" /\ IsOpen(trades[i])) =>
         LET t == trades[i]
             u == trades'[i]
         IN /\ u.stop_loss >= t.stop_loss
            /\ u.stop_loss =
                 IF GainOverTen(t.entry_price[1], eval'.price)
                 THEN RaisedStop(t.stop_loss, eval'.price)
                 ELSE t.stop_loss
            /\ u.take_profit = t.take_profit
            /\ u.entry_price = t.entry_price
            /\ u.quantity = t.quantity]_vars

\* C11 witness: the equity bought at 100 with stop 95 is open after the
\* cycle at 112, its stop raised to 106.4.
C11_Witness ==
  /\ eval # None /\ eval.price = 112
  /\ \E i \in Indices :
       /\ trades[i].type = "equity" /\ IsOpen(trades[i])
       /\ trades[i].entry_price = Some(100)
       /\ trades[i].stop_loss = 10640

\* C12: an evaluation cycle closes an open equity position if and only if,
\* with the stop as that cycle's ratchet leaves it, price <= stop_loss or
\* price >= take_profit or P&L% <= -20; on close exit_price is the price
\* and profit = (exit_price - entry_price) * quantity.
C12_EquityClose ==
  [][\A i \in Indices :
       (trades[i].type = "equity" /\ IsOpen(trades[i])) =>
         LET t == trades[i]
             u == trades'[i]
             price == eval'.price
             entry == t.entry_price[1]
             stop == IF GainOverTen(entry, price)
                     THEN RaisedStop(t.stop_loss, price) ELSE t.stop_loss
             due == \/ 100 * price <= stop
                    \/ 100 * price >= t.take_profit
                    \/ (price - entry) * 100 <= -(20 * entry)
         IN /\ (u.status = "closed") = due
            /\ due => /\ u.exit_price = Some(price)
                      /\ u.profit = Some((price - entry) * t.quantity[1])
            /\ ~due => u.status = "open" /\ u.exit_price = None
                       /\ u.profit = None]_vars

\* C12 witness: entry 100, stop ratcheted to 106.4 by a cycle at 112, closed
\* by the cycle at 106 with profit 6 * quantity.
C12_Witness ==
  /\ eval # None /\ eval.price = 106
  /\ \E i \in Indices :
       /\ trades[i].type = "equity" /\ trades[i].status = "closed"
       /\ trades[i].entry_price = Some(100)
       /\ trades[i].quantity = Some(3)
       /\ trades[i].stop_loss = 10640
       /\ trades[i].exit_price = Some(106)
       /\ trades[i].profit = Some(18)

\* C13: in every evaluation cycle in which the chain quotes its legs, an
\* open options structure is closed exactly when its unrealized P&L is
\* <= -stop_loss or >= take_profit, with profit the unrealized P&L.
C13_OptionsClose ==
  [][\A i \in Indices :
       (trades[i].type = "options_strategy" /\ IsOpen(trades[i])
          /\ eval'.pnl # None) =>
         LET t == trades[i]
             u == trades'[i]
             pnl == eval'.pnl[1]
             due == \/ 100 * pnl <= -t.stop_loss
                    \/ 100 * pnl >= t.take_profit
         IN /\ (u.status = "closed") = due
            /\ due => u.profit = Some(pnl)]_vars

PolicyRegime(e, calm) ==
  IF e.uptrend /\ e.near_support /\ e.bullish_flow /\ calm
  THEN "bull_call_spread"
  ELSE IF ~e.uptrend /\ e.near_resistance /\ ~e.bullish_flow
          /\ ~(e.rsi < 30 \/ e.rsi > 70)
  THEN "bear_put_spread"
  ELSE IF e.rsi < 30 \/ e.rsi > 70 THEN "butterfly"
  ELSE IF ~e.uptrend /\ ~e.near_support /\ ~e.near_resistance
  THEN "iron_condor"
  ELSE "none"

\* C15 as stated: select_best_strategy builds at most one structure, the
\* first match of: bull call spread if uptrend, near_support, bullish_flow
\* and RSI outside [0,30] and [70,100]; bear put spread; butterfly if
\* RSI < 30 or RSI > 70; iron condor; else none.
C15_RegimeSelection_Stated ==
  eval # None =>
    eval.result \in {"none", "raise",
                     PolicyRegime(eval, 30 < eval.rsi /\ eval.rsi < 70)}

\* C15, amended: the same policy with the bull call spread's RSI condition
\* 30 <= RSI <= 70 (RSI of exactly 30 or 70 is not volatile); the structure
\* returned is the one the policy names, and it is returned whenever an
\* expiry exists and its construction succeeds.
C15_RegimeSelection ==
  eval # None =>
    LET kind == PolicyRegime(eval, 30 <= eval.rsi /\ eval.rsi <= 70)
    IN /\ eval.result \in {"none", "raise", kind}
       /\ (eval.expiry /\ eval.rows /\ eval.strikes >= 4)
            => eval.result = kind

\* C15 witness: a bull call spread selected at RSI exactly 30.
C15_Witness ==
  /\ eval # None
  /\ eval.rsi = 30
  /\ eval.result = "bull_call_spread"

\* C16: when the chosen structure cannot be built (too few distinct strikes,
\* or no chain row for a required strike, type and expiry),
\* select_best_strategy returns None, not an exception.
C16_ConstructionFailure ==
  (eval # None /\ eval.expiry
     /\ PolicyRegime(eval, 30 <= eval.rsi /\ eval.rsi <= 70) # "none"
     /\ (~eval.rows
         \/ eval.strikes < StrikesNeeded(
              PolicyRegime(eval, 30 <= eval.rsi /\ eval.rsi <= 70))))
    => eval.result = "none"

\* C17: the stop_loss and take_profit persisted with an options position
\* are those of exactly one regime, in order: uptrend and bullish_flow ->
\* max_loss * 1.0 and max_profit * 0.7; else bollinger_width > 0.10 ->
\* max_loss * 0.7 and max_profit * 0.4; else max_loss * 0.8 and
\* max_profit * 0.5.
C17_OptionsRiskBands ==
  eval # None =>
    LET ml == eval.plan[1]
        mp == eval.plan[2]
        bands == IF eval.uptrend /\ eval.bullish_flow
                 THEN <<100 * ml, 70 * mp>>
                 ELSE IF eval.bollinger_width > 10
                 THEN <<70 * ml, 40 * mp>>
                 ELSE <<80 * ml, 50 * mp>>
    IN /\ eval.trade.stop_loss = bands[1]
       /\ eval.trade.take_profit = bands[2]

\* The decision the two entry gates give on snapshot s: equity first, then
\* options, else no trade.
GateDecision(s) ==
  IF (Oversold(s) \/ s.rsi < 40)
     /\ (NearSupport(s) \/ 100 * s.price <= 105 * s.support)
     /\ (Uptrend(s) \/ s.price > s.sma_20)
     /\ s.analyst_bullish
  THEN "equity"
  ELSE IF (Oversold(s) \/ s.rsi < 45) /\ s.bullish_flow
          /\ (s.strong_flow \/ s.put_call_ratio < 80)
          /\ s.high_activity /\ s.analyst_bullish
  THEN "options"
  ELSE "none"

C19_ScorerVeto ==
  (eval # None /\ eval.valid) =>
    IF ml_model
    THEN eval.prob < 50 => eval.decision = "none"
    ELSE eval.decision = GateDecision(eval.snapshot)

\* C20: the 'signals' of a position execute_trade creates are the snapshot
\* on which should_enter_trade made the gate decision, and the price and
\* bands of the position are derived from that snapshot.
C20_SignalSnapshot ==
  (eval # None /\ eval.trade # None) =>
    /\ eval.signals = eval.gate
    /\ eval.trade[1].type = "equity" =>
         /\ eval.trade[1].entry_price = Some(eval.gate.price)
         /\ eval.trade[1].stop_loss
              = StopLossPrice(eval.gate.price, eval.atr)
         /\ eval.trade[1].take_profit
              = TakeProfitPrice(eval.gate.price, eval.atr)

\* C21: an equity position check_signals opens has
\* quantity = floor(current_capital * 0.02 / price), current_capital being
\* the portfolio's current capital, whose 2% is the max_position_size of
\* the cycle.
C21_EquitySizing ==
  [][\A p \in PMs :
       (pc[p] = "loop" /\ pc'[p] = "reserve"
          /\ pending'[p][1].type = "equity")
         => pending'[p][1].quantity[1]
              = max_position_size[p] \div (100 * pending'[p][1].entry_price[1])
    ]_vars

\* C22: an instrument whose history is missing or too short in a cycle gets
\* no position in that cycle, no exception escapes check_signals, and every
\* other instrument without an open position is still evaluated.
C22_DataUnavailableSkipped ==
  eval # None =>
    \A s \in Symbols :
      eval.data[s] = None =>
        /\ ~eval.raised
        /\ \A i \in Indices : trades[i].symbol = s => i <= Len(eval.before)
        /\ eval.evaluated = Symbols \ OpenSymbols(eval.before)

C24_BullCallSpread ==
  (eval # None /\ eval.spread.kind = "bull_call_spread") =>
    LET s == eval.spread
        lo == eval.strikes[1]
        hi == eval.strikes[Len(eval.strikes)]
    IN /\ s.long_strike = lo /\ s.short_strike = hi
       /\ \A k \in 1..Len(eval.strikes) :
            lo <= eval.strikes[k] /\ eval.strikes[k] <= hi
       /\ s.max_loss = eval.calls[lo][1] - eval.calls[hi][1]
       /\ s.max_profit = (hi - lo) * 100 - s.max_loss
       /\ s.break_even = 100 * lo + s.max_loss
       /\ (eval.strikes = <<98, 102>> /\ eval.calls[98] = Some(400)
             /\ eval.calls[102] = Some(150))
            => (s.max_loss = 250 /\ s.max_profit = 150
                  /\ s.break_even = 10050)

\* C24 witness: the spread of the example was built.
C24_Witness ==
  /\ eval # None /\ eval.spread.kind = "bull_call_spread"
  /\ eval.strikes = <<98, 102>>
  /\ eval.calls[98] = Some(400) /\ eval.calls[102] = Some(150)
  /\ eval.spread.max_loss = 250 /\ eval.spread.max_profit = 150

\* C25: run_automated_trading makes at most max_retries = 3 initialization
\* attempts, and a trading cycle runs only after an attempt has succeeded:
\* when every attempt failed, by returning False or by raising, no cycle
\* runs.
C25_StartupRetry ==
  /\ Len(eval.history) <= MaxRetries
  /\ eval.cycles > 0 =>
       \E k \in 1..Len(eval.history) : eval.history[k].call = "ok"

\* C26: a pass of monitor_portfolio keeps every position of the store, in
\* the same order, whether or not its symbol has a strategy in the
\* universe; only positions that were open may differ in their fields.
C26_MonitorPreservesStore ==
  [][monitor_portfolio("auto") =>
       /\ Len(trades') = Len(trades)
       /\ \A i \in Indices :
            /\ trades'[i].id = trades[i].id
            /\ ~IsOpen(trades[i]) => trades'[i] = trades[i]]_vars

\* C27: a pass of monitor_positions run for symbol S leaves every position
\* of another symbol unchanged: only positions of S can be ratcheted or
\* closed.
C27_OwnSymbolOnly ==
  [][\A i \in Indices :
       trades[i].symbol # eval'.symbol => trades'[i] = trades[i]]_vars

\* C28: the ledger a new PortfolioManager builds over a store that holds
\* open positions excludes the capital they reserve: right after the
\* restart available_capital plus the capital reserved by the open
\* positions equals the initial capital plus the realized profit of the
\* closed ones.
C28_RestartConsistency ==
  [][Restart("auto") =>
       available_capital'["auto"]
         + SumSeq([i \in Indices |-> IF IsOpen(trades[i])
                                     THEN ReservedCapital(trades[i]) ELSE 0])
       = InitialCapital
         + SumSeq([i \in Indices |-> RealizedProfit(trades[i])])]_vars

\* C29: the capital reserved for a position check_signals opens
\* (entry_price * quantity for an equity, max_loss for an options
\* structure) is >= 0 and <= the max_position_size of the cycle.
C29_ReservationBounded ==
  [][\A p \in PMs :
       (pc[p] = "loop" /\ pc'[p] = "reserve") =>
         /\ ReservedCapital(pending'[p][1]) >= 0
         /\ 100 * ReservedCapital(pending'[p][1]) <= max_position_size[p]
    ]_vars

\* C30: when a trade creation interleaves with a monitor pass of another
\* session or process, every position either one has saved is still in the
\* store, and a close that was saved is not undone by the other's stale
\* copy.
C30_NoLostUpdate ==
  /\ \A id \in eval.saved : \E i \in Indices : trades[i].id = id
  /\ \A id \in eval.closed :
       \A i \in Indices : trades[i].id = id => ~IsOpen(trades[i])

====
